---- MODULE Spec2Model ----
(***************************************************************************)
(* State-space-model primitives of mamba.ipynb: discretize, scan_SSM,      *)
(* run_SSM, K_conv, causal_convolution, test_cnn_is_rnn and the SSMLayer   *)
(* module with its "cache" collection; further the scan taken step by     *)
(* step, two callers of one bound layer, make_HiPPO, the layer cloned by   *)
(* cloneLayer, and StackedModel.                                           *)
(*                                                                         *)
(* Numbers.  The notebook computes in floating point; the model computes   *)
(* in exact rational arithmetic, so "equal" below is exact equality of     *)
(* the real-number results.  A scalar is a pair <<n, d>> in lowest terms   *)
(* with d > 0.  The pair <<0, 0>> (NonFinite) stands for the IEEE values   *)
(* inf, -inf and nan: the only operations the code applies to scalars are  *)
(* + and *, and both return a non-finite value whenever an operand is      *)
(* non-finite, so the three are lumped into one absorbing value.           *)
(*                                                                         *)
(* Arrays.  A 1-D array is a sequence of scalars, a 2-D array a sequence   *)
(* of rows.  B is N x 1, C is 1 x N, a state x is a 1-D array of length N. *)
(***************************************************************************)
EXTENDS Integers, Sequences, FiniteSets

VARIABLES
    fn,          \* name of the function whose call produced the current state
    arg,         \* that call's arguments
    ret,         \* that call's outcome: [err |-> exception or "none", val |-> value]
    params,      \* SSMLayer: the "params" collection and the module fields N, l_max
    cache_x_k,   \* SSMLayer: the variable "cache_x_k" of the "cache" collection
    x_start,     \* observer: cache_x_k before the first decode call
    fed,         \* observer: inputs of the cache-updating decode calls, concatenated
    emitted,     \* observer: outputs of those calls, concatenated
    scan,        \* one jax.lax.scan in progress: its position, carry, outputs, step's locals
    callers,     \* the callers of one bound layer: each caller's position and locals
    hippo_seen   \* observer: per N, the calls of make_HiPPO(N) so far and the first result

vars == <<fn, arg, ret, params, cache_x_k, x_start, fed, emitted, scan, callers, hippo_seen>>

-----------------------------------------------------------------------------
(* Bounds of the model *)

\* longest input sequence u (and kernel K) a call of a function is given
MaxLen == 3

\* longest input sequence one call of the layer is given
MaxChunk == 2

\* most samples the cache-updating calls of one stream consume in total
MaxFed == 3

\* longest input one call of the cloned layer is given
MaxCloneChunk == 1

\* most samples per channel the cache-updating calls of the cloned layer consume
MaxCloneFed == 2

\* most layers of a StackedModel
MaxStacked == 2

\* largest N make_HiPPO is called with
MaxHiPPO == 4

\* most calls of make_HiPPO with one N
MaxCalls == 2

-----------------------------------------------------------------------------
(* Scalars *)

NonFinite == <<0, 0>>

IsFinite(x) == x[2] # 0

Abs(n) == IF n < 0 THEN -n ELSE n

RECURSIVE Gcd(_, _)
Gcd(a, b) == IF b = 0 THEN a ELSE Gcd(b, a % b)

\* n/d in lowest terms, d # 0
Frac(n, d) ==
    LET g == Gcd(Abs(n), Abs(d))
        s == IF d < 0 THEN -1 ELSE 1
    IN  <<(s * n) \div g, (s * d) \div g>>

R(n) == <<n, 1>>

RAdd(x, y) ==
    IF IsFinite(x) /\ IsFinite(y)
    THEN LET g == Gcd(x[2], y[2])
         IN  Frac(x[1] * (y[2] \div g) + y[1] * (x[2] \div g), (x[2] \div g) * y[2])
    ELSE NonFinite

RNeg(x) == IF IsFinite(x) THEN <<-x[1], x[2]>> ELSE NonFinite

RSub(x, y) == RAdd(x, RNeg(y))

RMul(x, y) ==
    IF IsFinite(x) /\ IsFinite(y)
    THEN LET g == Gcd(Abs(x[1]), y[2])
             h == Gcd(Abs(y[1]), x[2])
         IN  Frac((x[1] \div g) * (y[1] \div h), (x[2] \div h) * (y[2] \div g))
    ELSE NonFinite

\* IEEE division: x / 0 is inf or nan, never an exception
RDiv(x, y) ==
    IF IsFinite(x) /\ IsFinite(y) /\ y[1] # 0
    THEN Frac(x[1] * y[2], x[2] * y[1])
    ELSE NonFinite

-----------------------------------------------------------------------------
(* Arrays: the numpy operations the notebook uses *)

\* an array built element by element, as the tuple of its elements
Arr(f) == f \o <<>>

RECURSIVE VSum(_)
VSum(v) == IF v = <<>> THEN R(0) ELSE RAdd(Head(v), VSum(Tail(v)))

zeros(n) == Arr([i \in 1..n |-> R(0)])

eye(n) == Arr([i \in 1..n |-> Arr([j \in 1..n |-> IF i = j THEN R(1) ELSE R(0)])])

Rows(X) == Len(X)
Cols(X) == Len(X[1])

VAdd(v, w) == Arr([i \in 1..Len(v) |-> RAdd(v[i], w[i])])

VScale(s, v) == Arr([i \in 1..Len(v) |-> RMul(s, v[i])])

MAdd(X, Y) ==
    Arr([i \in 1..Rows(X) |-> Arr([j \in 1..Cols(X) |-> RAdd(X[i][j], Y[i][j])])])

MSub(X, Y) ==
    Arr([i \in 1..Rows(X) |-> Arr([j \in 1..Cols(X) |-> RSub(X[i][j], Y[i][j])])])

MScale(s, X) ==
    Arr([i \in 1..Rows(X) |-> Arr([j \in 1..Cols(X) |-> RMul(s, X[i][j])])])

\* X @ Y for 2-D X and 2-D Y
MatMul(X, Y) ==
    Arr([i \in 1..Rows(X) |-> Arr([j \in 1..Cols(Y) |->
        VSum(Arr([k \in 1..Rows(Y) |-> RMul(X[i][k], Y[k][j])]))])])

\* X @ v for 2-D X and 1-D v
MatVec(X, v) ==
    Arr([i \in 1..Rows(X) |-> VSum(Arr([k \in 1..Len(v) |-> RMul(X[i][k], v[k])]))])

\* u[:, np.newaxis]: shape (L,) to shape (L, 1)
newaxis(u) == Arr([k \in 1..Len(u) |-> <<u[k]>>])

\* y.reshape(-1) and y.ravel() of an (L, 1) array: shape (L,)
ravel(y) == Arr([k \in 1..Len(y) |-> y[k][1]])

\* jax.numpy.linalg.inv for the sizes the model uses (N = 1, 2).  It raises
\* nothing on a singular matrix: the elimination divides by the zero pivot.
inv(M) ==
    IF Rows(M) = 1
    THEN <<<<RDiv(R(1), M[1][1])>>>>
    ELSE LET det == RSub(RMul(M[1][1], M[2][2]), RMul(M[1][2], M[2][1]))
         IN  <<<<RDiv(M[2][2], det), RDiv(RNeg(M[1][2]), det)>>,
               <<RDiv(RNeg(M[2][1]), det), RDiv(M[1][1], det)>>>>

\* jax.numpy.linalg.matrix_power(a, n), n >= 0: square and multiply
RECURSIVE mp_loop(_, _, _, _)
mp_loop(z, n, result, started) ==
    IF n = 0 THEN result
    ELSE LET bit == n % 2
             r   == IF bit = 1
                    THEN (IF started THEN MatMul(result, z) ELSE z)
                    ELSE result
         IN  mp_loop(MatMul(z, z), n \div 2, r, started \/ bit = 1)

matrix_power(a, n) == IF n = 0 THEN eye(Rows(a)) ELSE mp_loop(a, n, a, FALSE)

-----------------------------------------------------------------------------
(* The functions of the notebook *)

\* example_mass(k, b, m): the mass-spring-damper system
example_mass(k, b, m) ==
    [A |-> <<<<R(0), R(1)>>, <<Frac(-k, m), Frac(-b, m)>>>>,
     B |-> <<<<R(0)>>, <<Frac(1, m)>>>>,
     C |-> <<<<R(1), R(0)>>>>]

\* discretize with Bb = BL @ B: the step factor of Bb forgotten
discretize_noStep(A, B, C, step) ==
    LET I  == eye(Rows(A))
        h  == RDiv(step, R(2))
        BL == inv(MSub(I, MScale(h, A)))
    IN  <<MatMul(BL, MAdd(I, MScale(h, A))), MatMul(BL, B), C>>

\* discretize(A, B, C, step): the bilinear transform; returns (Ab, Bb, C)
discretize(A, B, C, step) ==
    LET I  == eye(Rows(A))
        h  == RDiv(step, R(2))
        BL == inv(MSub(I, MScale(h, A)))
        Ab == MatMul(BL, MAdd(I, MScale(h, A)))
        Bb == MatMul(MScale(step, BL), B)
    IN  <<Ab, Bb, C>>

\* step with y_k = Cb @ x_k_1: the output taken before the state update
scan_step_stale(Ab, Bb, Cb, x_k_1, u_k) ==
    <<VAdd(MatVec(Ab, x_k_1), MatVec(Bb, u_k)), MatVec(Cb, x_k_1)>>

\* the function step of scan_SSM: (x_k_1, u_k) to (x_k, y_k)
scan_step(Ab, Bb, Cb, x_k_1, u_k) ==
    LET x_k == VAdd(MatVec(Ab, x_k_1), MatVec(Bb, u_k))
        y_k == MatVec(Cb, x_k)
    IN  <<x_k, y_k>>

\* jax.lax.scan(step, carry, xs): left to right over xs, the outputs stacked
RECURSIVE lax_scan(_, _, _, _, _, _)
lax_scan(Ab, Bb, Cb, carry, xs, ys) ==
    IF xs = <<>> THEN <<carry, ys>>
    ELSE LET r == scan_step(Ab, Bb, Cb, carry, Head(xs))
         IN  lax_scan(Ab, Bb, Cb, r[1], Tail(xs), Append(ys, r[2]))

\* scan_SSM(Ab, Bb, Cb, u, x0): u of shape (L, 1); returns (x_L, ys), ys of shape (L, 1)
scan_SSM(Ab, Bb, Cb, u, x0) == lax_scan(Ab, Bb, Cb, x0, u, <<>>)

Ok(v) == [err |-> "none", val |-> v]
Raise(e) == [err |-> e, val |-> <<>>]

\* run_SSM(A, B, C, u): step = 1.0 / L divides by the Python int L
run_SSM(A, B, C, u) ==
    LET L == Len(u)
        N == Rows(A)
    IN  IF L = 0 THEN Raise("ZeroDivisionError")
        ELSE LET ssm == discretize(A, B, C, Frac(1, L))
             IN  Ok(scan_SSM(ssm[1], ssm[2], ssm[3], newaxis(u), zeros(N))[2])

\* K_conv over range(1, L + 1): the kernel shifted by one power
K_conv_shifted(Ab, Bb, Cb, L) ==
    Arr([i \in 1..L |-> MatMul(MatMul(Cb, matrix_power(Ab, i)), Bb)[1][1]])

\* K_conv(Ab, Bb, Cb, L): element i of the sequence is the list element l = i - 1
K_conv(Ab, Bb, Cb, L) ==
    Arr([i \in 1..L |-> MatMul(MatMul(Cb, matrix_power(Ab, i - 1)), Bb)[1][1]])

\* jax.scipy.signal.convolve(u, K, mode="full") for non-empty u, K:
\* each u[i] adds u[i] * K at offset i; length len(u) + len(K) - 1
RECURSIVE convolve(_, _)
convolve(u, K) ==
    IF Len(u) = 1 THEN VScale(u[1], K)
    ELSE VAdd(VScale(u[1], K) \o zeros(Len(u) - 1),
              <<R(0)>> \o convolve(Tail(u), K))

Min(a, b) == IF a < b THEN a ELSE b

\* causal_convolution whose slice keeps the last len(u) samples
causal_convolution_tail(u, K, nofft) ==
    IF nofft
    THEN IF Len(u) = 0 \/ Len(K) = 0 THEN Raise("ValueError")
         ELSE LET full == convolve(u, K)
              IN  Ok(SubSeq(full, Len(full) - Min(Len(u), Len(full)) + 1, Len(full)))
    ELSE IF Len(K) # Len(u) THEN Raise("AssertionError")
         ELSE Raise("NameError")

\* causal_convolution(u, K, nofft).
\* nofft: convolve rejects a zero-size operand with ValueError; nothing
\* compares the two lengths.
\* FFT (the default): after the assert and the rfft of the padded u, the next
\* line evaluates mp.pad, and the notebook binds no name mp: NameError.  The
\* three lines after it are never reached.
causal_convolution(u, K, nofft) ==
    IF nofft
    THEN IF Len(u) = 0 \/ Len(K) = 0 THEN Raise("ValueError")
         ELSE LET full == convolve(u, K)
              IN  Ok(SubSeq(full, 1, Min(Len(u), Len(full))))
    ELSE IF Len(K) # Len(u) THEN Raise("AssertionError")
         ELSE Raise("NameError")

\* test_cnn_is_rnn with the random system and input as arguments
test_cnn_is_rnn(A, B, C, u, step) ==
    LET rec == run_SSM(A, B, C, u)
    IN  IF rec.err # "none" THEN Raise(rec.err)
        ELSE LET ssmb == discretize(A, B, C, step)
                 conv == causal_convolution(u, K_conv(ssmb[1], ssmb[2], ssmb[3], Len(u)), FALSE)
             IN  IF conv.err # "none" THEN Raise(conv.err)
                 ELSE IF ravel(rec.val) = conv.val THEN Ok(<<>>)
                 ELSE Raise("AssertionError")

\* SSMLayer.setup: the fields of self computed from the parameters
\* (p.step is np.exp(self.log_step))
SSMLayer_setup(p) ==
    LET ssm == discretize(p.A, p.B, p.C, p.step)
    IN  [N |-> p.N, D |-> p.D, ssm |-> ssm,
         K |-> K_conv(ssm[1], ssm[2], ssm[3], p.l_max)]

\* SSMLayer.__call__ whose recurrence starts from zeros, not from the cache
SSMLayer_call_fromZero(self, cache, u, decode, mutable) ==
    IF ~decode
    THEN LET conv == causal_convolution(u, self.K, FALSE)
         IN  [ret |-> IF conv.err # "none" THEN Raise(conv.err)
                      ELSE Ok(VAdd(conv.val, VScale(self.D[1], u))),
              cache |-> cache]
    ELSE LET r == scan_SSM(self.ssm[1], self.ssm[2], self.ssm[3], newaxis(u), zeros(self.N))
         IN  [ret |-> Ok(VAdd(ravel(r[2]), VScale(self.D[1], u))),
              cache |-> IF mutable THEN r[1] ELSE cache]

\* SSMLayer.__call__ that writes the cache without asking is_mutable_collection
SSMLayer_call_alwaysWrite(self, cache, u, decode, mutable) ==
    IF ~decode
    THEN LET conv == causal_convolution(u, self.K, FALSE)
         IN  [ret |-> IF conv.err # "none" THEN Raise(conv.err)
                      ELSE Ok(VAdd(conv.val, VScale(self.D[1], u))),
              cache |-> cache]
    ELSE LET r == scan_SSM(self.ssm[1], self.ssm[2], self.ssm[3], newaxis(u), cache)
         IN  [ret |-> Ok(VAdd(ravel(r[2]), VScale(self.D[1], u))),
              cache |-> r[1]]

\* SSMLayer.__call__ whose convolution mode resets the cache to zeros
SSMLayer_call_convResets(self, cache, u, decode, mutable) ==
    IF ~decode
    THEN LET conv == causal_convolution(u, self.K, FALSE)
         IN  [ret |-> IF conv.err # "none" THEN Raise(conv.err)
                      ELSE Ok(VAdd(conv.val, VScale(self.D[1], u))),
              cache |-> zeros(self.N)]
    ELSE LET r == scan_SSM(self.ssm[1], self.ssm[2], self.ssm[3], newaxis(u), cache)
         IN  [ret |-> Ok(VAdd(ravel(r[2]), VScale(self.D[1], u))),
              cache |-> IF mutable THEN r[1] ELSE cache]

\* SSMLayer.__call__(self, u) of one channel: self as set up, `cache` the
\* value of self.x_k_1, `mutable` the value of is_mutable_collection("cache").
\* Returns the call's outcome and the value of self.x_k_1 after the call.
SSMLayer_call(self, cache, u, decode, mutable) ==
    IF ~decode
    THEN LET conv == causal_convolution(u, self.K, FALSE)
         IN  [ret |-> IF conv.err # "none" THEN Raise(conv.err)
                      ELSE Ok(VAdd(conv.val, VScale(self.D[1], u))),
              cache |-> cache]
    ELSE LET r   == scan_SSM(self.ssm[1], self.ssm[2], self.ssm[3], newaxis(u), cache)
             x_k == r[1]
             y_s == r[2]
         IN  [ret |-> Ok(VAdd(ravel(y_s), VScale(self.D[1], u))),
              cache |-> IF mutable THEN x_k ELSE cache]

-----------------------------------------------------------------------------
(* Inputs the calls are given *)

\* samples of an input sequence and coefficients of a kernel
Vals == {R(-1), R(0), R(1)}

SeqsUpTo(S, n) == UNION {[1..k -> S] : k \in 0..n}

Inputs == SeqsUpTo(Vals, MaxLen)

\* step sizes handed to discretize directly; run_SSM uses 1/L
Steps == {Frac(1, 2), R(1), R(2)}

\* Continuous systems (A, B, C).  N = 1: I - step/2 A is singular for
\* (step, A) = (1, 2) and (2, 1).  N = 2: example_mass systems and a
\* random_SSM-like one with entries in [0, 1]; for these I - step/2 A is
\* invertible at every step the model uses (which entries of the inverse of
\* a singular 2 x 2 matrix come out non-finite depends on the elimination
\* order of the build, so the singular case is modelled at N = 1, where
\* 1/0 is the only outcome).
Systems ==
    {[A |-> <<<<R(a)>>>>, B |-> <<<<R(b)>>>>, C |-> <<<<R(c)>>>>] :
        a \in -2..2, b \in {0, 1}, c \in {1, 2}}
    \cup {example_mass(1, 1, 1), example_mass(2, 1, 1),
          [A |-> <<<<R(0), R(1)>>, <<R(0), R(0)>>>>,
           B |-> <<<<R(1)>>, <<R(1)>>>>,
           C |-> <<<<R(1), R(1)>>>>]}

\* Discrete systems (Ab, Bb, Cb) handed to scan_SSM and K_conv
DSystems == {discretize(s.A, s.B, s.C, st) : s \in Systems, st \in Steps}

\* initial states x0 of size n
States(n) == [1..n -> {R(0), R(1)}]

NoArg ==
    [A |-> <<>>, B |-> <<>>, C |-> <<>>, step |-> R(0), u |-> <<>>, K |-> <<>>,
     L |-> 0, x0 |-> <<>>, nofft |-> FALSE, decode |-> FALSE, mutable |-> FALSE]

NoParams == [N |-> 0, l_max |-> 0, A |-> <<>>, B |-> <<>>, C |-> <<>>, D |-> <<>>, step |-> R(0)]

layerVars == <<params, cache_x_k, x_start, fed, emitted>>

\* no scan in progress
NoScan ==
    [pc |-> "idle", i |-> 0, carry |-> <<>>, ys |-> <<>>,
     x_k_1 |-> <<>>, u_k |-> <<>>, x_k |-> <<>>, y_k |-> <<>>]

\* what the specifications without a scan in steps, concurrent callers or
\* make_HiPPO leave alone
auxVars == <<scan, callers, hippo_seen>>

-----------------------------------------------------------------------------
(* Specification Spec: calls of the notebook's functions, one at a time *)

Init ==
    /\ fn = "none"
    /\ arg = NoArg
    /\ ret = Ok(<<>>)
    /\ params = NoParams
    /\ cache_x_k = <<>>
    /\ x_start = <<>>
    /\ fed = <<>>
    /\ emitted = <<>>
    /\ scan = NoScan
    /\ callers = <<>>
    /\ hippo_seen = <<>>

Call_discretize ==
    /\ fn = "none"
    /\ \E s \in Systems, st \in Steps :
        /\ fn' = "discretize"
        /\ arg' = [NoArg EXCEPT !.A = s.A, !.B = s.B, !.C = s.C, !.step = st]
        /\ ret' = Ok(discretize(s.A, s.B, s.C, st))
        /\ UNCHANGED <<layerVars, auxVars>>

Call_scan_SSM ==
    /\ fn = "none"
    /\ \E d \in DSystems, u \in Inputs :
        \E x0 \in States(Rows(d[1])) :
            /\ fn' = "scan_SSM"
            /\ arg' = [NoArg EXCEPT !.A = d[1], !.B = d[2], !.C = d[3],
                                    !.u = newaxis(u), !.x0 = x0]
            /\ ret' = Ok(scan_SSM(d[1], d[2], d[3], newaxis(u), x0))
            /\ UNCHANGED <<layerVars, auxVars>>

Call_run_SSM ==
    /\ fn = "none"
    /\ \E s \in Systems, u \in Inputs :
        /\ fn' = "run_SSM"
        /\ arg' = [NoArg EXCEPT !.A = s.A, !.B = s.B, !.C = s.C, !.u = u]
        /\ ret' = run_SSM(s.A, s.B, s.C, u)
        /\ UNCHANGED <<layerVars, auxVars>>

Call_K_conv ==
    /\ fn = "none"
    /\ \E d \in DSystems, L \in 0..MaxLen :
        /\ fn' = "K_conv"
        /\ arg' = [NoArg EXCEPT !.A = d[1], !.B = d[2], !.C = d[3], !.L = L]
        /\ ret' = Ok(K_conv(d[1], d[2], d[3], L))
        /\ UNCHANGED <<layerVars, auxVars>>

Call_causal_convolution ==
    /\ fn = "none"
    /\ \E u \in Inputs, K \in Inputs, nofft \in BOOLEAN :
        /\ fn' = "causal_convolution"
        /\ arg' = [NoArg EXCEPT !.u = u, !.K = K, !.nofft = nofft]
        /\ ret' = causal_convolution(u, K, nofft)
        /\ UNCHANGED <<layerVars, auxVars>>

\* test_cnn_is_rnn(N, L, step) with step = 1/L, L >= 1
Call_test_cnn_is_rnn ==
    /\ fn = "none"
    /\ \E s \in Systems, u \in Inputs \ {<<>>} :
        /\ fn' = "test_cnn_is_rnn"
        /\ arg' = [NoArg EXCEPT !.A = s.A, !.B = s.B, !.C = s.C, !.u = u,
                                !.L = Len(u), !.step = Frac(1, Len(u))]
        /\ ret' = test_cnn_is_rnn(s.A, s.B, s.C, u, Frac(1, Len(u)))
        /\ UNCHANGED <<layerVars, auxVars>>

\* the caller has used the result; the next call starts from a clean slate
Return ==
    /\ fn # "none"
    /\ fn' = "none"
    /\ arg' = NoArg
    /\ ret' = Ok(<<>>)
    /\ UNCHANGED <<layerVars, auxVars>>

Next ==
    \/ Call_discretize
    \/ Call_scan_SSM
    \/ Call_run_SSM
    \/ Call_K_conv
    \/ Call_causal_convolution
    \/ Call_test_cnn_is_rnn
    \/ Return

Spec == Init /\ [][Next]_vars

-----------------------------------------------------------------------------
(* Reference definitions the properties are stated with *)

\* determinant, sizes 1 and 2
Det(M) ==
    IF Rows(M) = 1 THEN M[1][1]
    ELSE RSub(RMul(M[1][1], M[2][2]), RMul(M[1][2], M[2][1]))

\* I - step/2 A and I + step/2 A
IMinus(A, step) == MSub(eye(Rows(A)), MScale(RDiv(step, R(2)), A))
IPlus(A, step) == MAdd(eye(Rows(A)), MScale(RDiv(step, R(2)), A))

Singular(A, step) == Det(IMinus(A, step)) = R(0)

\* A^l by l successive products
RECURSIVE Power(_, _)
Power(A, l) == IF l = 0 THEN eye(Rows(A)) ELSE MatMul(A, Power(A, l - 1))

\* x_k of the recurrence x_0 = x0, x_k = Ab x_{k-1} + Bb u_k
RECURSIVE StateAt(_, _, _, _, _)
StateAt(Ab, Bb, u, x0, k) ==
    IF k = 0 THEN x0
    ELSE VAdd(MatVec(Ab, StateAt(Ab, Bb, u, x0, k - 1)), MatVec(Bb, u[k]))

\* sum over m in 0..n of K[m] u[n-m], the sequences indexed from 0
RECURSIVE CausalSum(_, _, _, _)
CausalSum(u, K, n, m) ==
    IF m < 0 THEN R(0)
    ELSE RAdd(RMul(K[m + 1], u[n - m + 1]), CausalSum(u, K, n, m - 1))

AllFinite(v) == \A i \in 1..Len(v) : IsFinite(v[i])

-----------------------------------------------------------------------------
(* Properties under Spec *)

\* C1 (as claimed): test_cnn_is_rnn on a system (A, B, C), an input u of
\* length L and step = 1/L finds the recurrent output run_SSM(A, B, C, u) and
\* the convolution causal_convolution(u, K_conv(discretize(A, B, C, step), L))
\* in its default mode both computed and equal element by element.
C1_RecurrenceEqualsConvolution ==
    fn = "test_cnn_is_rnn" =>
        LET rec  == run_SSM(arg.A, arg.B, arg.C, arg.u)
            ssmb == discretize(arg.A, arg.B, arg.C, arg.step)
            conv == causal_convolution(arg.u, K_conv(ssmb[1], ssmb[2], ssmb[3], arg.L), FALSE)
        IN  /\ ret.err = "none"
            /\ rec.err = "none"
            /\ conv.err = "none"
            /\ ravel(rec.val) = conv.val

\* C2 (as claimed): for len(K) = len(u), causal_convolution returns a result
\* in FFT mode and in direct mode, and the two results are equal at every index.
C2_FftEqualsDirect ==
    (fn = "causal_convolution" /\ Len(arg.K) = Len(arg.u)) =>
        LET other == causal_convolution(arg.u, arg.K, ~arg.nofft)
        IN  /\ ret.err = "none"
            /\ other.err = "none"
            /\ Len(ret.val) = Len(arg.u)
            /\ \A n \in 1..Len(arg.u) : ret.val[n] = other.val[n]

\* C3 (as claimed): for len(K) # len(u), causal_convolution fails with an
\* error and returns no output sequence, in FFT mode and in direct mode.
C3_LengthMismatchFails ==
    (fn = "causal_convolution" /\ Len(arg.K) # Len(arg.u)) =>
        ret.err # "none" /\ ret.val = <<>>

\* C4 (as claimed): when I - step/2 A is singular, discretize fails with an
\* error and returns no triple (Ab, Bb, Cb).
C4_SingularFails ==
    (fn = "discretize" /\ Singular(arg.A, arg.step)) => ret.err # "none"

\* C5: scan_SSM(Ab, Bb, Cb, u, x0) on an input of length L returns (x_L, y)
\* with x_0 = x0, x_k = Ab x_{k-1} + Bb u_k, y of exactly L elements, the
\* k-th of them Cb x_k (from the state after the k-th update).
C5_ScanIsRecurrence ==
    fn = "scan_SSM" =>
        LET L == Len(arg.u)
            X(k) == StateAt(arg.A, arg.B, arg.u, arg.x0, k)
        IN  /\ ret.err = "none"
            /\ ret.val[1] = X(L)
            /\ Len(ret.val[2]) = L
            /\ \A k \in 1..L : ret.val[2][k] = MatVec(arg.C, X(k))

\* C5 witness: a scan over at least two samples from a non-zero state, whose
\* last output differs from the output the initial state would give
C5_Witness ==
    /\ fn = "scan_SSM"
    /\ Len(arg.u) >= 2
    /\ arg.x0 # zeros(Len(arg.x0))
    /\ AllFinite(ret.val[1])
    /\ ret.val[1] # arg.x0
    /\ ret.val[2][Len(arg.u)] # MatVec(arg.C, arg.x0)
    /\ ret.val[2][1] # MatVec(arg.C, arg.x0)

\* C7: K_conv(Ab, Bb, Cb, L) returns exactly L coefficients with
\* K[l] = Cb Ab^l Bb for l in 0..L-1, and the empty kernel for L = 0.
C7_KernelIsImpulseResponse ==
    fn = "K_conv" =>
        /\ ret.err = "none"
        /\ Len(ret.val) = arg.L
        /\ \A l \in 0..(arg.L - 1) :
              ret.val[l + 1] = MatVec(arg.C, MatVec(Power(arg.A, l), ravel(arg.B)))[1]
        /\ (arg.L = 0 => ret.val = <<>>)

\* C7 witness: a kernel of three finite coefficients that are not all equal
C7_Witness ==
    /\ fn = "K_conv"
    /\ arg.L >= 3
    /\ AllFinite(ret.val)
    /\ ret.val[1] # R(0)
    /\ ret.val[2] # ret.val[1]
    /\ ret.val[3] # ret.val[2]

\* C8 (as claimed): in direct mode with len(K) = len(u) = L, for every L,
\* causal_convolution returns exactly L outputs, y[n] = sum_{m=0..n} K[m] u[n-m].
C8_DirectIsCausalSum_AnyL ==
    (fn = "causal_convolution" /\ arg.nofft /\ Len(arg.K) = Len(arg.u)) =>
        /\ ret.err = "none"
        /\ Len(ret.val) = Len(arg.u)
        /\ \A n \in 0..(Len(arg.u) - 1) :
              ret.val[n + 1] = CausalSum(arg.u, arg.K, n, n)

\* C8 (amended): in direct mode with len(K) = len(u) = L and L >= 1,
\* causal_convolution returns exactly L outputs, y[n] = sum_{m=0..n} K[m] u[n-m];
\* for L = 0 the call raises ValueError and returns nothing.
C8_DirectIsCausalSum ==
    (fn = "causal_convolution" /\ arg.nofft /\ Len(arg.K) = Len(arg.u)) =>
        IF Len(arg.u) >= 1
        THEN /\ ret.err = "none"
             /\ Len(ret.val) = Len(arg.u)
             /\ \A n \in 0..(Len(arg.u) - 1) :
                   ret.val[n + 1] = CausalSum(arg.u, arg.K, n, n)
        ELSE ret.err = "ValueError" /\ ret.val = <<>>

\* C8 witness: a direct convolution of two sequences of length >= 2 whose
\* last output is non-zero and differs from the first
C8_Witness ==
    /\ fn = "causal_convolution"
    /\ arg.nofft
    /\ Len(arg.K) = Len(arg.u)
    /\ Len(arg.u) >= 2
    /\ ret.err = "none"
    /\ ret.val[Len(arg.u)] # R(0)
    /\ ret.val[Len(arg.u)] # ret.val[1]
    /\ arg.K[1] # arg.K[2]

\* C9: for I - step/2 A invertible (and step > 0), discretize returns
\* (Ab, Bb, Cb) with (I - step/2 A) Ab = I + step/2 A,
\* (I - step/2 A) Bb = step B and Cb = C.
C9_BilinearTransform ==
    (fn = "discretize" /\ ~Singular(arg.A, arg.step)) =>
        LET M == IMinus(arg.A, arg.step)
        IN  /\ ret.err = "none"
            /\ Len(ret.val) = 3
            /\ MatMul(M, ret.val[1]) = IPlus(arg.A, arg.step)
            /\ MatMul(M, ret.val[2]) = MScale(arg.step, arg.B)
            /\ ret.val[3] = arg.C

\* C9 witness: a two-state system with B # 0 discretized at a step other than 1
C9_Witness ==
    /\ fn = "discretize"
    /\ ~Singular(arg.A, arg.step)
    /\ Rows(arg.A) = 2
    /\ arg.step = Frac(1, 2)
    /\ arg.A[2][1] # R(0)
    /\ ret.val[2] # arg.B
    /\ ret.val[1] # eye(2)

\* C14 (as claimed): run_SSM starts from the zero state, so for every system
\* and every input u the outputs are zero up to (not including) the first
\* non-zero input sample: y_k = 0 whenever u_0 .. u_k are all zero.
C14_ZeroUntilFirstInput ==
    (fn = "run_SSM" /\ ret.err = "none") =>
        \A k \in 1..Len(arg.u) :
            (\A j \in 1..k : arg.u[j] = R(0)) => ret.val[k] = <<R(0)>>

\* C17: causality of both evaluators.  Two inputs of one length that agree
\* on positions 0..n differ only in samples after n.  Changing one sample
\* u[m] of the input to any other value leaves every output before position
\* m as it was, for scan_SSM (same system, same initial state) and for
\* causal_convolution (same kernel, same mode; a call that raises does so
\* for the changed input too): no output depends on a later input.  (Any
\* two inputs that agree on 0..n are linked by such changes at positions
\* after n, each of them an input the model calls the function with.)
C17_Causality ==
    /\ fn = "scan_SSM" =>
          \A m \in 1..Len(arg.u) :
              \A x \in Vals \ {arg.u[m][1]} :
                  LET v     == [arg.u EXCEPT ![m] = <<x>>]
                      other == scan_SSM(arg.A, arg.B, arg.C, v, arg.x0)
                  IN  \A j \in 1..(m - 1) : other[2][j] = ret.val[2][j]
    /\ fn = "causal_convolution" =>
          \A m \in 1..Len(arg.u) :
              \A x \in Vals \ {arg.u[m]} :
                  LET v     == [arg.u EXCEPT ![m] = x]
                      other == causal_convolution(v, arg.K, arg.nofft)
                  IN  /\ other.err = ret.err
                      /\ Len(other.val) = Len(ret.val)
                      /\ \A j \in 1..(m - 1) :
                            j <= Len(ret.val) => other.val[j] = ret.val[j]

\* C17 witness (scan_SSM): an input with a non-zero last sample on which the
\* last output depends, so that changing it changes the last output only
C17_Witness ==
    /\ fn = "scan_SSM"
    /\ Len(arg.u) >= 3
    /\ arg.u[Len(arg.u)] # <<R(0)>>
    /\ AllFinite(ret.val[1])
    /\ LET L == Len(arg.u)
           v == [ravel(arg.u) EXCEPT ![L] = R(0)]
           other == scan_SSM(arg.A, arg.B, arg.C, newaxis(v), arg.x0)
       IN  /\ other[2][L] # ret.val[2][L]
           /\ \A j \in 1..(L - 1) : other[2][j] = ret.val[2][j]
           /\ ret.val[2][1] # ret.val[2][2]

-----------------------------------------------------------------------------
(* Specification SpecLayer: one SSMLayer channel and its cache, called      *)
(* repeatedly, one call at a time, by a caller who passes the cache back in *)

\* samples fed to the layer
LayerVals == {R(0), R(1)}

LayerInputs == SeqsUpTo(LayerVals, MaxChunk)

\* parameter values of the layer (any reals after training; D starts at ones),
\* with l_max = 2 and exp(log_step) = 1/2
LayerSystems ==
    {[A |-> <<<<R(-1)>>>>, B |-> <<<<R(1)>>>>, C |-> <<<<R(1)>>>>],
     [A |-> <<<<R(1)>>>>, B |-> <<<<R(1)>>>>, C |-> <<<<R(2)>>>>],
     example_mass(1, 1, 1)}

Layers ==
    {[N |-> Rows(s.A), l_max |-> l, A |-> s.A, B |-> s.B, C |-> s.C,
      D |-> <<R(d)>>, step |-> st] :
        s \in LayerSystems, l \in {2}, d \in {0, 1}, st \in {Frac(1, 2)}}

\* the state after init: the parameters, and a cache value (zeros, or the
\* state a decode-mode init call or an earlier stream left)
InitLayer ==
    /\ fn = "none"
    /\ arg = NoArg
    /\ ret = Ok(<<>>)
    /\ params \in Layers
    /\ cache_x_k \in States(params.N)
    /\ x_start = cache_x_k
    /\ fed = <<>>
    /\ emitted = <<>>
    /\ scan = NoScan
    /\ callers = <<>>
    /\ hippo_seen = <<>>

\* a call with decode = True; the inputs that reach the cache are capped at MaxFed
Call_SSMLayer_decode ==
    /\ fn = "none"
    /\ \E u \in LayerInputs, mutable \in BOOLEAN :
        /\ mutable => Len(fed) + Len(u) <= MaxFed
        /\ \E self \in {SSMLayer_setup(params)} :
             \E r \in {SSMLayer_call(self, cache_x_k, u, TRUE, mutable)} :
                /\ fn' = "SSMLayer"
                /\ arg' = [NoArg EXCEPT !.u = u, !.decode = TRUE, !.mutable = mutable]
                /\ ret' = r.ret
                /\ cache_x_k' = r.cache
                /\ fed' = IF mutable THEN fed \o u ELSE fed
                /\ emitted' = IF mutable THEN emitted \o r.ret.val ELSE emitted
                /\ UNCHANGED <<params, x_start, auxVars>>

\* a call with decode = False
Call_SSMLayer_conv ==
    /\ fn = "none"
    /\ \E u \in LayerInputs, mutable \in BOOLEAN :
        \E self \in {SSMLayer_setup(params)} :
            \E r \in {SSMLayer_call(self, cache_x_k, u, FALSE, mutable)} :
                /\ fn' = "SSMLayer"
                /\ arg' = [NoArg EXCEPT !.u = u, !.decode = FALSE, !.mutable = mutable]
                /\ ret' = r.ret
                /\ cache_x_k' = r.cache
                /\ UNCHANGED <<params, x_start, fed, emitted, auxVars>>

NextLayer ==
    \/ Call_SSMLayer_decode
    \/ Call_SSMLayer_conv
    \/ Return

SpecLayer == InitLayer /\ [][NextLayer]_vars

-----------------------------------------------------------------------------
(* Properties under SpecLayer *)

\* C6: streaming continuation.  Evaluating an input in consecutive chunks,
\* each from the state the previous evaluation returned, gives the final
\* state and the concatenated outputs of one evaluation of the whole input
\* from the initial state x0: for scan_SSM at every split of the input, and
\* for the successive decode-mode calls of SSMLayer that update the cache.
C6_StreamingContinuation ==
    LET self  == SSMLayer_setup(params)
        Ab    == self.ssm[1]
        Bb    == self.ssm[2]
        Cb    == self.ssm[3]
        u     == newaxis(fed)
        whole == scan_SSM(Ab, Bb, Cb, u, x_start)
        once  == SSMLayer_call(self, x_start, fed, TRUE, TRUE)
    IN  /\ cache_x_k = once.cache
        /\ emitted = once.ret.val
        /\ \A i \in 0..Len(u) :
              LET first  == scan_SSM(Ab, Bb, Cb, SubSeq(u, 1, i), x_start)
                  second == scan_SSM(Ab, Bb, Cb, SubSeq(u, i + 1, Len(u)), first[1])
              IN  /\ second[1] = whole[1]
                  /\ first[2] \o second[2] = whole[2]

\* C6 witness: a second cache-updating decode call, from a non-zero initial
\* state, after which the cache has moved and the last output is non-zero
C6_Witness ==
    /\ fn = "SSMLayer"
    /\ arg.decode
    /\ arg.mutable
    /\ Len(arg.u) >= 1
    /\ Len(fed) > Len(arg.u)
    /\ x_start # zeros(params.N)
    /\ cache_x_k # x_start
    /\ emitted[Len(emitted)] # R(0)
    /\ emitted[1] # R(0)

\* C10 (as claimed): with a zero cache and an input of length l_max, SSMLayer
\* called with decode=False returns an output sequence, and it is the output
\* sequence SSMLayer called with decode=True returns (D u included in both).
C10_ConvModeEqualsDecodeMode ==
    (/\ fn = "SSMLayer"
     /\ ~arg.decode
     /\ Len(arg.u) = params.l_max
     /\ cache_x_k = zeros(params.N)) =>
        LET self == SSMLayer_setup(params)
            rnn  == SSMLayer_call(self, cache_x_k, arg.u, TRUE, arg.mutable)
        IN  /\ ret.err = "none"
            /\ rnn.ret.err = "none"
            /\ ret.val = rnn.ret.val

-----------------------------------------------------------------------------
(* Specification SpecScan: one scan_SSM call, executed line by line.        *)
(* jax.lax.scan(step, x0, u) is the loop                                    *)
(*     carry = x0; ys = []                                                  *)
(*     for x in u: carry, y = step(carry, x); ys.append(y)                  *)
(*     return carry, stack(ys)                                              *)
(* and step is the three lines 111-113 of the notebook.                     *)

\* discrete systems a scan in steps runs on
ScanSystems == {discretize(s.A, s.B, s.C, Frac(1, 2)) : s \in LayerSystems}

InitScan ==
    /\ fn = "none"
    /\ arg = NoArg
    /\ ret = Ok(<<>>)
    /\ params = NoParams
    /\ cache_x_k = <<>>
    /\ x_start = <<>>
    /\ fed = <<>>
    /\ emitted = <<>>
    /\ scan = NoScan
    /\ callers = <<>>
    /\ hippo_seen = <<>>

scanFrame == <<params, cache_x_k, x_start, fed, emitted, callers, hippo_seen>>

\* scan_SSM(Ab, Bb, Cb, u, x0) is entered: the scan starts with carry = x0
Scan_begin ==
    /\ fn = "none"
    /\ \E d \in ScanSystems, u \in Inputs :
        \E x0 \in States(Rows(d[1])) :
            /\ fn' = "scan_SSM"
            /\ arg' = [NoArg EXCEPT !.A = d[1], !.B = d[2], !.C = d[3],
                                    !.u = newaxis(u), !.x0 = x0]
            /\ ret' = Ok(<<>>)
            /\ scan' = [NoScan EXCEPT !.pc = "loop", !.carry = x0]
            /\ UNCHANGED scanFrame

\* step whose x_k_1 is the initial state x0 instead of the carry
Step_enter_fromInit ==
    /\ scan.pc = "loop"
    /\ scan.i < Len(arg.u)
    /\ scan' = [scan EXCEPT !.pc = "l111", !.x_k_1 = arg.x0, !.u_k = arg.u[scan.i + 1],
                            !.x_k = <<>>, !.y_k = <<>>]
    /\ UNCHANGED <<fn, arg, ret, scanFrame>>

\* the scan calls step(carry, u[i]): the parameters x_k_1, u_k are bound
Step_enter ==
    /\ scan.pc = "loop"
    /\ scan.i < Len(arg.u)
    /\ scan' = [scan EXCEPT !.pc = "l111", !.x_k_1 = scan.carry, !.u_k = arg.u[scan.i + 1],
                            !.x_k = <<>>, !.y_k = <<>>]
    /\ UNCHANGED <<fn, arg, ret, scanFrame>>

\* x_k = Ab @ x_k_1 + Bb @ u_k
Step_update ==
    /\ scan.pc = "l111"
    /\ scan' = [scan EXCEPT !.pc = "l112",
                            !.x_k = VAdd(MatVec(arg.A, scan.x_k_1), MatVec(arg.B, scan.u_k))]
    /\ UNCHANGED <<fn, arg, ret, scanFrame>>

\* y_k = Cb @ x_k
Step_output ==
    /\ scan.pc = "l112"
    /\ scan' = [scan EXCEPT !.pc = "l113", !.y_k = MatVec(arg.C, scan.x_k)]
    /\ UNCHANGED <<fn, arg, ret, scanFrame>>

\* return x_k, y_k: the scan takes x_k as its carry and appends y_k to the outputs
Step_return ==
    /\ scan.pc = "l113"
    /\ scan' = [scan EXCEPT !.pc = "loop", !.i = scan.i + 1, !.carry = scan.x_k,
                            !.ys = Append(scan.ys, scan.y_k)]
    /\ UNCHANGED <<fn, arg, ret, scanFrame>>

\* u is exhausted: the scan returns (carry, ys)
Scan_end ==
    /\ scan.pc = "loop"
    /\ scan.i = Len(arg.u)
    /\ scan' = [scan EXCEPT !.pc = "done"]
    /\ ret' = Ok(<<scan.carry, scan.ys>>)
    /\ UNCHANGED <<fn, arg, scanFrame>>

\* the caller has used the result
Scan_return ==
    /\ scan.pc = "done"
    /\ fn' = "none"
    /\ arg' = NoArg
    /\ ret' = Ok(<<>>)
    /\ scan' = NoScan
    /\ UNCHANGED scanFrame

NextScan ==
    \/ Scan_begin
    \/ Step_enter
    \/ Step_update
    \/ Step_output
    \/ Step_return
    \/ Scan_end
    \/ Scan_return

SpecScan == InitScan /\ [][NextScan]_vars

-----------------------------------------------------------------------------
(* Properties under SpecScan *)

\* C11: within one recurrent evaluation the steps are strictly ordered.
\* While step k = i + 1 runs, the i steps before it have completed (exactly
\* i outputs are emitted) and the state it reads, x_k_1, is the carry
\* written by step k - 1, the state x_{k-1} of the recurrence; the state x_k
\* it computes is written before y_k = Cb x_k is computed, and y_k joins the
\* outputs only when the step returns, after the k-th state update.  The
\* finished scan returns what scan_SSM returns.
C11_StepsStrictlyOrdered ==
    scan.pc # "idle" =>
        LET L == Len(arg.u)
            X(k) == StateAt(arg.A, arg.B, arg.u, arg.x0, k)
            inStep == scan.pc \in {"l111", "l112", "l113"}
        IN  /\ scan.i \in 0..L
            /\ Len(scan.ys) = scan.i
            /\ scan.carry = X(scan.i)
            /\ \A k \in 1..scan.i : scan.ys[k] = MatVec(arg.C, X(k))
            /\ inStep =>
                  /\ scan.i < L
                  /\ scan.x_k_1 = X(scan.i)
                  /\ scan.u_k = arg.u[scan.i + 1]
            /\ scan.pc = "l111" => scan.x_k = <<>> /\ scan.y_k = <<>>
            /\ scan.pc = "l112" => scan.x_k = X(scan.i + 1) /\ scan.y_k = <<>>
            /\ scan.pc = "l113" =>
                  scan.x_k = X(scan.i + 1) /\ scan.y_k = MatVec(arg.C, scan.x_k)
            /\ scan.pc = "done" =>
                  /\ scan.i = L
                  /\ ret.val = <<X(L), scan.ys>>
                  /\ ret.val = scan_SSM(arg.A, arg.B, arg.C, arg.u, arg.x0)

\* C11 witness: the last line of a second or later step, whose state differs
\* from the state it read and from the initial state, and whose output is
\* not the output the state it read would give
C11_Witness ==
    /\ scan.pc = "l113"
    /\ scan.i >= 1
    /\ scan.x_k_1 # arg.x0
    /\ scan.x_k # scan.x_k_1
    /\ scan.y_k # MatVec(arg.C, scan.x_k_1)
    /\ scan.y_k # <<R(0)>>

-----------------------------------------------------------------------------
(* Specification SpecShared: two callers run SSMLayer.__call__ with         *)
(* decode = True on one bound layer, so on one cache cell, with the cache   *)
(* collection mutable and no lock around the call (the code takes none).    *)
(* Line 399 reads the cell and runs the recurrence, line 401 writes the     *)
(* cell; another caller can run between the two.                            *)

Callers == {1, 2}

\* a caller that has not called yet; x_read and saw are observers: the cell
\* value the caller read, and how many writes the cell had had by then
IdleCaller ==
    [pc |-> "idle", u |-> <<>>, x_k |-> <<>>, out |-> <<>>,
     x_read |-> <<>>, saw |-> 0, order |-> 0]

InitShared ==
    /\ fn = "none"
    /\ arg = NoArg
    /\ ret = Ok(<<>>)
    /\ params \in Layers
    /\ cache_x_k \in States(params.N)
    /\ x_start = cache_x_k
    /\ fed = <<>>
    /\ emitted = <<>>
    /\ scan = NoScan
    /\ callers = [c \in Callers |-> IdleCaller]
    /\ hippo_seen = <<>>

\* how many callers have written the cell
Writes == Cardinality({c \in Callers : callers[c].pc = "done"})

\* line 399: x_k, y_s = scan_SSM(*self.ssm, u[:, np.newaxis], self.x_k_1.value)
Caller_scan(c) ==
    /\ callers[c].pc = "idle"
    /\ \E u \in LayerInputs :
        \E self \in {SSMLayer_setup(params)} :
            \E r \in {SSMLayer_call(self, cache_x_k, u, TRUE, TRUE)} :
                callers' = [callers EXCEPT ![c] =
                    [pc |-> "l400", u |-> u, x_k |-> r.cache, out |-> r.ret.val,
                     x_read |-> cache_x_k, saw |-> Writes, order |-> 0]]
    /\ UNCHANGED <<fn, arg, ret, params, cache_x_k, x_start, fed, emitted, scan, hippo_seen>>

\* lines 400-402: self.x_k_1.value = x_k, and the output is returned
Caller_store(c) ==
    /\ callers[c].pc = "l400"
    /\ cache_x_k' = callers[c].x_k
    /\ callers' = [callers EXCEPT ![c].pc = "done", ![c].order = Writes + 1]
    /\ UNCHANGED <<fn, arg, ret, params, x_start, fed, emitted, scan, hippo_seen>>

NextShared ==
    \/ \E c \in Callers : Caller_scan(c)
    \/ \E c \in Callers : Caller_store(c)

SpecShared == InitShared /\ [][NextShared]_vars

-----------------------------------------------------------------------------
(* Properties under SpecShared *)

\* the state one decode call on u leaves in the cell when it starts from x
FinalState(u, x) ==
    LET self == SSMLayer_setup(params)
    IN  scan_SSM(self.ssm[1], self.ssm[2], self.ssm[3], newaxis(u), x)[1]

BothDone == \A c \in Callers : callers[c].pc = "done"

LastWriter == CHOOSE c \in Callers : callers[c].order = 2
FirstWriter == CHOOSE c \in Callers : callers[c].order = 1

\* both callers read the cell before either wrote it
Raced == \A c \in Callers : callers[c].saw = 0

\* C12: decode-mode evaluation on one shared cell is not safe without a lock.
\* After both calls the cell holds the last writer's state computed from the
\* value that caller read: when both callers read before either wrote, that
\* is the state of the last writer's call alone from the initial state, and
\* the first writer's update is lost; only when the second caller read after
\* the first wrote is it the state of the two calls in sequence.  (The
\* witness is the interleaving whose stored state is that of neither
\* sequential order.)
C12_LostUpdate ==
    BothDone =>
        LET w == LastWriter
            o == FirstWriter
        IN  /\ w # o
            /\ cache_x_k = FinalState(callers[w].u, callers[w].x_read)
            /\ IF Raced
               THEN /\ callers[w].x_read = x_start
                    /\ cache_x_k = FinalState(callers[w].u, x_start)
               ELSE /\ callers[w].x_read = FinalState(callers[o].u, x_start)
                    /\ cache_x_k = FinalState(callers[w].u, FinalState(callers[o].u, x_start))

\* C12 witness: both calls are over, both read before either wrote, and the
\* stored state is the state of neither sequential order of the two calls
C12_Witness ==
    /\ BothDone
    /\ Raced
    /\ cache_x_k # FinalState(callers[2].u, FinalState(callers[1].u, x_start))
    /\ cache_x_k # FinalState(callers[1].u, FinalState(callers[2].u, x_start))
    /\ x_start # zeros(params.N)

-----------------------------------------------------------------------------
(* make_HiPPO.  Its entries are square roots of integers and their          *)
(* products: a value c * sqrt(r), c an integer and r >= 1 square-free, is   *)
(* the pair <<c, r>>; zero is <<0, 1>>, an integer c is <<c, 1>>.           *)

\* the largest k <= m with k * k dividing n
RECURSIVE SquarePart(_, _)
SquarePart(n, m) == IF n % (m * m) = 0 THEN m ELSE SquarePart(n, m - 1)

\* np.sqrt(n) of an integer n >= 1
sqrt(n) == LET k == SquarePart(n, n) IN <<k, n \div (k * k)>>

\* x * y
SMul(x, y) ==
    IF x[1] = 0 \/ y[1] = 0 THEN <<0, 1>>
    ELSE LET g == Gcd(x[2], y[2])
         IN  <<x[1] * y[1] * g, (x[2] \div g) * (y[2] \div g)>>

\* x - d for an integer d: d is non-zero only on the diagonal, where x is an integer
SSubInt(x, d) ==
    CASE d = 0 -> x
      [] d # 0 /\ x[2] = 1 -> <<x[1] - d, 1>>

SNeg(x) == <<-x[1], x[2]>>

\* np.arange(N): 0, 1, ..., N - 1
arange(N) == Arr([i \in 1..N |-> i - 1])

\* np.tril(M): the entries above the diagonal set to zero
tril(M) ==
    Arr([i \in 1..Len(M) |-> Arr([j \in 1..Len(M[i]) |-> IF j > i THEN <<0, 1>> ELSE M[i][j]])])

\* np.diag(v): the square matrix with v on its diagonal
diag(v) ==
    Arr([i \in 1..Len(v) |-> Arr([j \in 1..Len(v) |-> IF i = j THEN v[i] ELSE 0])])

\* make_HiPPO that forgets to subtract diag(arange(N))
make_HiPPO_noDiag(N) ==
    LET P  == Arr([i \in 1..N |-> sqrt(1 + 2 * arange(N)[i])])
        A0 == Arr([i \in 1..N |-> Arr([j \in 1..N |-> SMul(P[i], P[j])])])
        T  == tril(A0)
    IN  Arr([i \in 1..N |-> Arr([j \in 1..N |-> SNeg(T[i][j])])])

\* make_HiPPO(N)
make_HiPPO(N) ==
    LET P  == Arr([i \in 1..N |-> sqrt(1 + 2 * arange(N)[i])])
        A0 == Arr([i \in 1..N |-> Arr([j \in 1..N |-> SMul(P[i], P[j])])])
        T  == tril(A0)
        D  == diag(arange(N))
        A  == Arr([i \in 1..N |-> Arr([j \in 1..N |-> SSubInt(T[i][j], D[i][j])])])
    IN  Arr([i \in 1..N |-> Arr([j \in 1..N |-> SNeg(A[i][j])])])

-----------------------------------------------------------------------------
(* Specification SpecHiPPO: calls of make_HiPPO, one at a time *)

InitHiPPO ==
    /\ fn = "none"
    /\ arg = NoArg
    /\ ret = Ok(<<>>)
    /\ params = NoParams
    /\ cache_x_k = <<>>
    /\ x_start = <<>>
    /\ fed = <<>>
    /\ emitted = <<>>
    /\ scan = NoScan
    /\ callers = <<>>
    /\ hippo_seen = [n \in 0..MaxHiPPO |-> [calls |-> 0, first |-> <<>>]]

Call_make_HiPPO ==
    /\ fn = "none"
    /\ \E N \in 0..MaxHiPPO :
        /\ hippo_seen[N].calls < MaxCalls
        /\ \E A \in {make_HiPPO(N)} :
            /\ fn' = "make_HiPPO"
            /\ arg' = [N |-> N]
            /\ ret' = Ok(A)
            /\ hippo_seen' = [hippo_seen EXCEPT ![N] =
                    [calls |-> @.calls + 1, first |-> IF @.calls = 0 THEN A ELSE @.first]]
    /\ UNCHANGED <<layerVars, scan, callers>>

NextHiPPO ==
    \/ Call_make_HiPPO
    \/ Return

SpecHiPPO == InitHiPPO /\ [][NextHiPPO]_vars

-----------------------------------------------------------------------------
(* Properties under SpecHiPPO *)

\* C13: for every N >= 0, make_HiPPO(N) returns an N x N matrix, the same on
\* every call, with A[i][j] = 0 for j > i, A[i][i] = -(i+1), and for j < i
\* A[i][j] < 0 and A[i][j]^2 = (2i+1)(2j+1)  (i, j counted from 0; the
\* equalities are those of real arithmetic).
C13_HiPPOStructure ==
    fn = "make_HiPPO" =>
        LET N == arg.N
            A == ret.val
        IN  /\ ret.err = "none"
            /\ Len(A) = N
            /\ A = hippo_seen[N].first
            /\ \A i \in 0..(N - 1) :
                  /\ Len(A[i + 1]) = N
                  /\ \A j \in 0..(N - 1) :
                        LET a == A[i + 1][j + 1]
                        IN  /\ j > i => a = <<0, 1>>
                            /\ j = i => a = <<-(i + 1), 1>>
                            /\ j < i => /\ a[1] < 0
                                        /\ a[1] * a[1] * a[2] = (2 * i + 1) * (2 * j + 1)

\* C13 witness: a repeated call of make_HiPPO(4), returning the matrix
\*   -1     0     0     0
\*   -r3   -2     0     0
\*   -r5   -r15  -3     0
\*   -r7   -r21  -r35  -4        (rn the square root of n)
C13_Witness ==
    /\ fn = "make_HiPPO"
    /\ arg.N = 4
    /\ hippo_seen[4].calls >= 2
    /\ ret.val = << <<<<-1, 1>>, <<0, 1>>,   <<0, 1>>,   <<0, 1>>>>,
                    <<<<-1, 3>>, <<-2, 1>>,  <<0, 1>>,   <<0, 1>>>>,
                    <<<<-1, 5>>, <<-1, 15>>, <<-3, 1>>,  <<0, 1>>>>,
                    <<<<-1, 7>>, <<-1, 21>>, <<-1, 35>>, <<-4, 1>>>> >>

-----------------------------------------------------------------------------
(* Frame properties of SSMLayer.__call__, under SpecLayer.  A step with     *)
(* fn' = "SSMLayer" is one call: the unprimed variables are the state       *)
(* before it, the primed ones the state after it.                           *)

\* C15 (as claimed): after a decode-mode call on u the cache holds the final
\* state x_L of that call if and only if the cache collection is mutable;
\* when it is not mutable the cache is left unchanged, and a repeated call
\* on the same u returns the same output.
C15_CacheHoldsFinalIffMutable ==
    [][(fn' = "SSMLayer" /\ arg'.decode) =>
          LET self  == SSMLayer_setup(params)
              again == SSMLayer_call(self, cache_x_k', arg'.u, TRUE, arg'.mutable)
          IN  /\ ret'.err = "none"
              /\ (cache_x_k' = FinalState(arg'.u, cache_x_k)) <=> arg'.mutable
              /\ ~arg'.mutable => /\ cache_x_k' = cache_x_k
                                  /\ again.ret = ret'
    ]_vars

\* C15 (amended): after a decode-mode call on u the cache holds the final
\* state x_L of that call if the cache collection is mutable, and is left
\* unchanged if it is not (it then equals x_L only when the call's x_L is
\* the stored state itself, as for an empty u); a call with an immutable
\* cache repeated on the same u returns the same output and again leaves
\* the cache unchanged.
C15_CacheWrittenWhenMutable ==
    [][(fn' = "SSMLayer" /\ arg'.decode) =>
          LET self  == SSMLayer_setup(params)
              x_L   == FinalState(arg'.u, cache_x_k)
              again == SSMLayer_call(self, cache_x_k', arg'.u, TRUE, arg'.mutable)
          IN  /\ ret'.err = "none"
              /\ arg'.mutable => cache_x_k' = x_L
              /\ ~arg'.mutable => /\ cache_x_k' = cache_x_k
                                  /\ (cache_x_k' = x_L <=> x_L = cache_x_k)
                                  /\ again.ret = ret'
                                  /\ again.cache = cache_x_k'
    ]_vars

\* C15 witness: a decode-mode call with an immutable cache, on a non-empty
\* input that would move the state, made after cache-updating calls have
\* moved the cache from its initial value
C15_Witness ==
    /\ fn = "SSMLayer"
    /\ arg.decode
    /\ ~arg.mutable
    /\ Len(arg.u) >= 1
    /\ cache_x_k # x_start
    /\ FinalState(arg.u, cache_x_k) # cache_x_k
    /\ ret.val[1] # R(0)

\* C16: a call in convolution mode (decode = False) never modifies the
\* cache, and its outcome does not depend on the cache's value: from every
\* other cache value the same call has the same outcome and leaves that
\* value in place.  Hence after any sequence of such calls the cache equals
\* its value before the sequence.
C16_ConvModeLeavesCache ==
    [][(fn' = "SSMLayer" /\ ~arg'.decode) =>
          LET self == SSMLayer_setup(params)
          IN  /\ cache_x_k' = cache_x_k
              /\ \A c \in States(params.N) \cup {zeros(params.N), x_start} :
                    LET other == SSMLayer_call(self, c, arg'.u, FALSE, arg'.mutable)
                    IN  other.ret = ret' /\ other.cache = c
    ]_vars

\* C16 witness: a convolution-mode call on an input of length l_max, with a
\* mutable cache collection, after cache-updating decode calls have left a
\* non-zero state in the cache that is not the initial one
C16_Witness ==
    /\ fn = "SSMLayer"
    /\ ~arg.decode
    /\ arg.mutable
    /\ Len(arg.u) = params.l_max
    /\ fed # <<>>
    /\ cache_x_k # x_start
    /\ cache_x_k # zeros(params.N)

-----------------------------------------------------------------------------
(* Specification SpecClone: the layer SSMLayer = cloneLayer(SSMLayer), that *)
(* is nn.vmap over axis 1 of the input, the output, "params" and "cache".   *)
(* With H channels the input and the output have shape (L, H); params,      *)
(* cache_x_k and the observers hold one value per channel.                  *)

Channels == 1..2

\* u[:, i]
column(u, i) == Arr([k \in 1..Len(u) |-> u[k][i]])

\* the per-channel outputs stacked along axis 1: shape (L, H)
stack(cols, L) == Arr([k \in 1..L |-> Arr([i \in Channels |-> cols[i][k]])])

\* the cloned layer with one cache for all channels (variable_axes "cache": None)
cloneLayer_call_sharedCache(selfs, caches, u, decode, mutable) ==
    LET rs   == Arr([i \in Channels |->
                     SSMLayer_call(selfs[i], caches[1], column(u, i), decode, mutable)])
        errs == {rs[i].ret.err : i \in Channels} \ {"none"}
    IN  IF errs # {}
        THEN [ret |-> Raise(CHOOSE e \in errs : TRUE), cache |-> caches]
        ELSE [ret |-> Ok(stack(Arr([i \in Channels |-> rs[i].ret.val]), Len(u))),
              cache |-> Arr([i \in Channels |-> rs[i].cache])]

\* cloneLayer(SSMLayer).__call__(u): channel i runs SSMLayer.__call__ on
\* u[:, i] with its own parameters and its own cache; all channels run the
\* same code on the same shapes, so an exception is the call's exception and
\* no cache is written.
cloneLayer_call(selfs, caches, u, decode, mutable) ==
    LET rs   == Arr([i \in Channels |->
                     SSMLayer_call(selfs[i], caches[i], column(u, i), decode, mutable)])
        errs == {rs[i].ret.err : i \in Channels} \ {"none"}
    IN  IF errs # {}
        THEN [ret |-> Raise(CHOOSE e \in errs : TRUE), cache |-> caches]
        ELSE [ret |-> Ok(stack(Arr([i \in Channels |-> rs[i].ret.val]), Len(u))),
              cache |-> Arr([i \in Channels |-> rs[i].cache])]

\* inputs of shape (L, H)
CloneInputs == UNION {[1..k -> [Channels -> LayerVals]] : k \in 0..MaxCloneChunk}

\* the parameters of the channels: one N and l_max, each channel its own
\* A, B, C, D and step (two single-state channels; two two-state channels)
CloneLayers ==
    {<<[N |-> 1, l_max |-> 2, A |-> <<<<R(-1)>>>>, B |-> <<<<R(1)>>>>, C |-> <<<<R(1)>>>>,
        D |-> <<R(1)>>, step |-> Frac(1, 2)],
       [N |-> 1, l_max |-> 2, A |-> <<<<R(1)>>>>, B |-> <<<<R(1)>>>>, C |-> <<<<R(2)>>>>,
        D |-> <<R(0)>>, step |-> R(1)]>>,
     <<[N |-> 2, l_max |-> 2, A |-> <<<<R(0), R(1)>>, <<R(0), R(0)>>>>,
        B |-> <<<<R(1)>>, <<R(1)>>>>, C |-> <<<<R(1), R(1)>>>>,
        D |-> <<R(0)>>, step |-> R(1)],
       [N |-> 2, l_max |-> 2, A |-> example_mass(1, 1, 1).A, B |-> example_mass(1, 1, 1).B,
        C |-> example_mass(1, 1, 1).C, D |-> <<R(1)>>, step |-> Frac(1, 2)]>>}

\* cache values of one channel: zeros (as initialised) and ones
CloneCaches(N) == {zeros(N), Arr([n \in 1..N |-> R(1)])}

InitClone ==
    /\ fn = "none"
    /\ arg = NoArg
    /\ ret = Ok(<<>>)
    /\ params \in CloneLayers
    /\ cache_x_k = Arr([i \in Channels |-> zeros(params[i].N)])
    /\ x_start = cache_x_k
    /\ fed = Arr([i \in Channels |-> <<>>])
    /\ emitted = Arr([i \in Channels |-> <<>>])
    /\ scan = NoScan
    /\ callers = <<>>
    /\ hippo_seen = <<>>

\* a call of the cloned layer; the inputs that reach the caches are capped
Call_cloneLayer ==
    /\ fn = "none"
    /\ \E u \in CloneInputs, decode \in BOOLEAN, mutable \in BOOLEAN :
        /\ (decode /\ mutable) => Len(fed[1]) + Len(u) <= MaxCloneFed
        /\ \E selfs \in {Arr([i \in Channels |-> SSMLayer_setup(params[i])])} :
             \E r \in {cloneLayer_call(selfs, cache_x_k, u, decode, mutable)} :
                /\ fn' = "SSMLayer"
                /\ arg' = [NoArg EXCEPT !.u = u, !.decode = decode, !.mutable = mutable]
                /\ ret' = r.ret
                /\ cache_x_k' = r.cache
                /\ fed' = IF decode /\ mutable
                          THEN Arr([i \in Channels |-> fed[i] \o column(u, i)])
                          ELSE fed
                /\ emitted' = IF decode /\ mutable
                              THEN Arr([i \in Channels |-> emitted[i] \o column(r.ret.val, i)])
                              ELSE emitted
                /\ UNCHANGED <<params, x_start, auxVars>>

NextClone ==
    \/ Call_cloneLayer
    \/ Return

SpecClone == InitClone /\ [][NextClone]_vars

-----------------------------------------------------------------------------
(* Properties under SpecClone *)

\* C18: channel independence of the cloned layer.  In every call, with the
\* input column and the cache of another channel j replaced by any other
\* values, the call fails or succeeds as before and channel i's output
\* column and channel i's cache after the call are as before; and after any
\* sequence of calls the cache of channel i and the outputs its
\* cache-updating calls returned are those of the single layer with channel
\* i's parameters, run from channel i's initial cache on the inputs fed to
\* channel i.
C18_ChannelIndependence ==
    [][fn' = "SSMLayer" =>
          LET selfs == Arr([i \in Channels |-> SSMLayer_setup(params[i])])
              L     == Len(arg'.u)
          IN  \A i \in Channels :
                  /\ LET once == SSMLayer_call(selfs[i], x_start[i], fed'[i], TRUE, TRUE)
                     IN  /\ cache_x_k'[i] = once.cache
                         /\ emitted'[i] = once.ret.val
                  /\ \A j \in Channels \ {i} :
                        \A w \in [1..L -> LayerVals], c \in CloneCaches(params[j].N) :
                            LET v     == Arr([k \in 1..L |-> [arg'.u[k] EXCEPT ![j] = w[k]]])
                                other == cloneLayer_call(selfs, [cache_x_k EXCEPT ![j] = c],
                                                         v, arg'.decode, arg'.mutable)
                            IN  /\ other.ret.err = ret'.err
                                /\ other.cache[i] = cache_x_k'[i]
                                /\ ret'.err = "none" =>
                                      column(other.ret.val, i) = column(ret'.val, i)
    ]_vars

\* C18 witness: a second cache-updating decode call of the cloned layer, the
\* two channels fed different inputs, after which the two caches differ and
\* both have moved from their initial values
C18_Witness ==
    /\ fn = "SSMLayer"
    /\ arg.decode
    /\ arg.mutable
    /\ Len(arg.u) >= 1
    /\ Len(fed[1]) > Len(arg.u)
    /\ fed[1] # fed[2]
    /\ cache_x_k[1] # cache_x_k[2]
    /\ \A i \in Channels : cache_x_k[i] # x_start[i]
    /\ column(ret.val, 1) # column(ret.val, 2)

-----------------------------------------------------------------------------
(* StackedModel.  Its encoder, decoder, normalisation, activation and       *)
(* log_softmax act on each position of the sequence separately, so the      *)
(* model follows, for each position of a sequence, the set of input         *)
(* positions its value is computed from (positions counted from 1): the     *)
(* input x of length L is <<{1}, ..., {L}>>.                                *)

\* self.name: the value of a field of the module, AttributeError for a name
\* that is no field
getattr(self, name) ==
    IF name \in DOMAIN self THEN Ok(self[name]) ELSE Raise("AttributeError")

\* the input x of length L
positions(L) == Arr([k \in 1..L |-> {k}])

\* a map applied to each position separately (Dense, Embedding, LayerNorm,
\* gelu, dropout, log_softmax over the last axis)
pointwise(x) == x

\* np.pad(x[:-1], [(1, 0), (0, 0)]): the last row dropped, a row of zeros put
\* in front (one row results from an empty x too)
pad_shift(x) == <<{}>> \o SubSeq(x, 1, Len(x) - 1)

\* SequenceBlock.__call__: the cloned SSMLayer between position-wise maps and
\* a skip connection.  With decode = False the SSM layer runs
\* causal_convolution in its default mode (its outcome for len(u) = l_max
\* is taken from causal_convolution); with decode = True it runs scan_SSM,
\* whose output k is computed from the inputs up to k.
SequenceBlock_call(block, x) ==
    LET L    == Len(x)
        conv == causal_convolution(zeros(L), zeros(L), FALSE)
    IN  IF ~block.decode
        THEN IF conv.err # "none" THEN Raise(conv.err)
             ELSE Ok(Arr([k \in 1..L |-> UNION {x[j] : j \in 1..k}]))
        ELSE Ok(Arr([k \in 1..L |-> UNION {x[j] : j \in 1..k}]))

\* for layer in self.layers: x = layer(x)
RECURSIVE apply_layers(_, _)
apply_layers(layers, x) ==
    IF layers = <<>> THEN Ok(x)
    ELSE LET r == SequenceBlock_call(Head(layers), x)
         IN  IF r.err # "none" THEN r ELSE apply_layers(Tail(layers), r.val)

\* StackedModel.setup: the list of n_layers SequenceBlocks; each block's
\* arguments are evaluated when the block is built, among them self.droput
StackedModel_setup(self) ==
    IF self.n_layers = 0 THEN Ok(<<>>)
    ELSE LET dropout == getattr(self, "droput")
         IN  IF dropout.err # "none" THEN Raise(dropout.err)
             ELSE Ok(Arr([l \in 1..self.n_layers |->
                          [prenorm |-> self.prenorm, dropout |-> dropout.val,
                           training |-> self.training, decode |-> self.decode]]))

\* StackedModel.__call__(x); flax runs setup before the body of the first
\* method called on a bound module
StackedModel_call(self, x) ==
    LET layers == StackedModel_setup(self)
    IN  IF layers.err # "none" THEN Raise(layers.err)
        ELSE LET x1 == IF ~self.classification /\ ~self.decode THEN pad_shift(x) ELSE x
                 x2 == pointwise(x1)
                 x3 == apply_layers(layers.val, x2)
             IN  IF x3.err # "none" THEN Raise(x3.err)
                 ELSE IF self.classification
                      THEN Ok(pointwise(<<UNION {x3.val[k] : k \in 1..Len(x3.val)}>>))
                      ELSE Ok(pointwise(x3.val))

-----------------------------------------------------------------------------
(* Specification SpecStacked: calls of one StackedModel *)

\* the fields of the module that setup and __call__ read
StackedModels ==
    [n_layers : 0..MaxStacked, prenorm : {TRUE}, dropout : {R(0)}, embedding : BOOLEAN,
     classification : BOOLEAN, training : {TRUE}, decode : BOOLEAN]

InitStacked ==
    /\ fn = "none"
    /\ arg = NoArg
    /\ ret = Ok(<<>>)
    /\ params \in StackedModels
    /\ cache_x_k = <<>>
    /\ x_start = <<>>
    /\ fed = <<>>
    /\ emitted = <<>>
    /\ scan = NoScan
    /\ callers = <<>>
    /\ hippo_seen = <<>>

Call_StackedModel ==
    /\ fn = "none"
    /\ \E L \in 0..MaxLen :
        /\ fn' = "StackedModel"
        /\ arg' = [NoArg EXCEPT !.u = positions(L), !.L = L, !.decode = params.decode]
        /\ ret' = StackedModel_call(params, positions(L))
    /\ UNCHANGED <<layerVars, auxVars>>

NextStacked ==
    \/ Call_StackedModel
    \/ Return

SpecStacked == InitStacked /\ [][NextStacked]_vars

-----------------------------------------------------------------------------
(* Properties under SpecStacked *)

\* C19 (as claimed): StackedModel with classification = False and at least
\* one layer returns an output of the input's length.  With decode = False the input is shifted
\* one position to the right before the layers, so the output at position k
\* is computed from inputs at positions < k only; with decode = True no shift
\* is applied (the output at position k is computed from the input at k);
\* and setup builds n_layers blocks, each running with the decode flag given
\* to the StackedModel.
C19_ShiftAndDecodeFlag ==
    (fn = "StackedModel" /\ ~params.classification /\ params.n_layers >= 1) =>
        LET layers == StackedModel_setup(params)
        IN  /\ ret.err = "none"
            /\ Len(ret.val) = arg.L
            /\ ~params.decode => \A k \in 1..Len(ret.val) : ret.val[k] \subseteq 1..(k - 1)
            /\ params.decode => \A k \in 1..Len(ret.val) : k \in ret.val[k]
            /\ layers.err = "none"
            /\ Len(layers.val) = params.n_layers
            /\ \A l \in 1..Len(layers.val) : layers.val[l].decode = params.decode

====
